---- MODULE Spec2Model ----
EXTENDS Integers, Sequences, FiniteSets, TLC

\* A model of VintBot: the polling task check_vinted, the enrichment calls
\* fetch_user_feedback / fetch_item_description, the notification send and the
\* per-message refresh task update_time_difference (src/bot/main.py).
\*
\* Python strings are sequences of one-character strings; Python's None for a
\* string is the one-element sequence NoneStr, which no string can equal.

VARIABLES pc, items, item, logged, sent_items, call, user_feedback, sinkLog,
          tasks, msgCond, outcomes, probe

vars == <<pc, items, item, logged, sent_items, call, user_feedback, sinkLog,
          tasks, msgCond, outcomes, probe>>

\* ------------------------------------------------------------------ bounds

\* number of distinct listing ids the search can return
MaxId == 2
\* number of listings in one fetched batch
MaxBatch == 2

Ids == 1..MaxId

\* ----------------------------------------------------------------- strings

NoneStr == <<"<None>">>
\* a JSON value that is no string and is truthy (a number, say)
NotStr == <<"<int>">>

UpperChars == <<"A","B","C","D","E","F","G","H","I","J","K","L","M","N","O","P",
                "Q","R","S","T","U","V","W","X","Y","Z">>
LowerChars == <<"a","b","c","d","e","f","g","h","i","j","k","l","m","n","o","p",
                "q","r","s","t","u","v","w","x","y","z">>

LowerChar(c) ==
    IF \E i \in 1..Len(UpperChars) : UpperChars[i] = c
    THEN LowerChars[CHOOSE i \in 1..Len(UpperChars) : UpperChars[i] = c]
    ELSE c

\* str.lower()
StrLower(s) == [i \in 1..Len(s) |-> LowerChar(s[i])]

IsSpace(c) == c \in {" ", "\t", "\n"}

SetMin(S) == CHOOSE x \in S : \A y \in S : x <= y
SetMax(S) == CHOOSE x \in S : \A y \in S : x >= y

\* str.strip()
StrStrip(s) ==
    LET keep == {i \in 1..Len(s) : ~IsSpace(s[i])}
    IN  IF keep = {} THEN <<>> ELSE SubSeq(s, SetMin(keep), SetMax(keep))

StartsWithAt(s, p, i) ==
    /\ i + Len(p) - 1 <= Len(s)
    /\ SubSeq(s, i, i + Len(p) - 1) = p

\* p in s
StrContains(s, p) == \E i \in 1..(Len(s) + 1) : StartsWithAt(s, p, i)

\* s.replace(old, new), old non-empty
RECURSIVE StrReplace(_, _, _)
StrReplace(s, old, new) ==
    IF s = <<>> THEN <<>>
    ELSE IF StartsWithAt(s, old, 1)
         THEN new \o StrReplace(SubSeq(s, Len(old) + 1, Len(s)), old, new)
         ELSE <<Head(s)>> \o StrReplace(Tail(s), old, new)

\* s.split(sep), sep non-empty
RECURSIVE SplitFrom(_, _, _)
SplitFrom(s, sep, acc) ==
    IF s = <<>> THEN <<acc>>
    ELSE IF StartsWithAt(s, sep, 1)
         THEN <<acc>> \o SplitFrom(SubSeq(s, Len(sep) + 1, Len(s)), sep, <<>>)
         ELSE SplitFrom(Tail(s), sep, Append(acc, Head(s)))

StrSplit(s, sep) == SplitFrom(s, sep, <<>>)

\* ------------------------------------------------------------ brand matcher

\* a brand_channels.json mapping: brand -> {channel_id, aliases}
brand_channels ==
    << [brand |-> <<"N","i","k","e">>, channel_id |-> 1,
        aliases |-> << <<"N","i","k","e">> >>],
       [brand |-> <<"P","a","l","a","c","e">>, channel_id |-> 2,
        aliases |-> << <<"p","a","l","a","c","e">>, <<"P","a","l","a","c","e",".">> >>] >>

\* dict assignment d[key] = value on an insertion-ordered dict
DictSet(d, key, value) ==
    IF \E i \in 1..Len(d) : d[i].alias = key
    THEN [i \in 1..Len(d) |-> IF d[i].alias = key
                              THEN [alias |-> key, route |-> value] ELSE d[i]]
    ELSE Append(d, [alias |-> key, route |-> value])

RECURSIVE AddAliases(_, _, _)
AddAliases(d, entry, k) ==
    IF k > Len(entry.aliases) THEN d
    ELSE AddAliases(DictSet(d, StrLower(entry.aliases[k]),
                            [main_brand |-> entry.brand,
                             channel_id |-> entry.channel_id]),
                    entry, k + 1)

RECURSIVE AddBrands(_, _, _)
AddBrands(d, config, b) ==
    IF b > Len(config) THEN d
    ELSE AddBrands(AddAliases(d, config[b], 1), config, b + 1)

\* MyBot._create_alias_mapping
_create_alias_mapping(config) == AddBrands(<<>>, config, 1)

NoRoute == [main_brand |-> NoneStr, channel_id |-> 0]

HasAlias(d, key) == \E i \in 1..Len(d) : d[i].alias = key
Lookup(d, key) == d[CHOOSE i \in 1..Len(d) : d[i].alias = key].route

specific_brands ==
    { <<"c","o","l","e"," ","b","u","x","t","o","n">>,
      <<"a","c","n","e"," ","s","t","u","d","i","o","s">>,
      <<"o","u","r"," ","l","e","g","a","c","y">>,
      <<"c","a","n","a","d","a"," ","g","o","o","s","e">>,
      <<"p","a","l","a","c","e">>,
      <<"b","a","p","e">>,
      <<"c","l","i","n","t","s">>,
      <<"s","t","u","s","s","y">> }

variations(brand_lower) ==
    << brand_lower,
       StrReplace(brand_lower, <<" ">>, <<>>),
       StrReplace(brand_lower, <<"ü">>, <<"u">>),
       StrReplace(brand_lower, <<"-">>, <<" ">>),
       StrReplace(brand_lower, <<".">>, <<>>) >>

\* the body of the loop over self.brand_aliases.items(), for one alias
AliasHits(e, brand_lower) ==
    \/ /\ StrContains(brand_lower, <<" ","x"," ">>)
       /\ LET parts == StrSplit(brand_lower, <<" ","x"," ">>)
          IN  \E p \in 1..Len(parts) : StrStrip(parts[p]) = e.alias
    \/ /\ e.alias \in specific_brands
       /\ StrContains(brand_lower, e.alias)

\* MyBot._find_matching_brand
_find_matching_brand(aliases, brand_title) ==
    IF brand_title = NoneStr \/ brand_title = <<>> THEN NoRoute
    ELSE
      LET brand_lower == StrStrip(StrLower(brand_title))
          vars5 == variations(brand_lower)
          vhit == {v \in 1..Len(vars5) : HasAlias(aliases, vars5[v])}
          ahit == {i \in 1..Len(aliases) : AliasHits(aliases[i], brand_lower)}
      IN  IF HasAlias(aliases, brand_lower) THEN Lookup(aliases, brand_lower)
          ELSE IF vhit # {} THEN Lookup(aliases, vars5[SetMin(vhit)])
          ELSE IF ahit # {} THEN aliases[SetMin(ahit)].route
          ELSE NoRoute

child_indicators ==
    { <<"m","o","n","t","h","s">>, <<"y","e","a","r","s">>,
      <<"c","h","i","l","d">>, <<"k","i","d","s">>, <<"b","a","b","y">> }

\* a filter that compares without lowercasing
_is_child_size_CaseSensitive(size_title) ==
    IF size_title = NoneStr \/ size_title = <<>> THEN FALSE
    ELSE \E ind \in child_indicators : StrContains(size_title, ind)

\* MyBot._is_child_size
_is_child_size(size_title) ==
    IF size_title = NoneStr \/ size_title = <<>> THEN FALSE
    ELSE \E ind \in child_indicators : StrContains(StrLower(size_title), ind)

\* ------------------------------------------------------------- candidates

\* The shapes of listing a search can return.  user is the raw record's
\* "user" entry: absent, JSON null, an object without "id", an object with it;
\* brand_title is taken from the record as it comes, string or not.
Shapes == {"eligible", "child", "nobrand", "nouser", "malformed", "badbrand"}

Candidate(id, shape) ==
    [ id |-> id,
      brand_title |-> CASE shape = "nobrand" -> <<"Z","a","r","a">>
                        [] shape = "badbrand" -> NotStr
                        [] OTHER -> <<"N","i","k","e">>,
      size_title |-> IF shape = "child" THEN <<"K","i","d","s"," ","L">>
                     ELSE <<"M">>,
      user |-> CASE shape = "nouser" -> "no_id"
                 [] shape = "malformed" -> "null"
                 [] OTHER -> "has_id" ]

Catalogue == {Candidate(i, s) : i \in Ids, s \in Shapes}

\* item.brand_title.lower() raises AttributeError on a value without lower()
BrandRaises(c) == c.brand_title = NotStr

\* brand_title = item.brand_title.lower() if item.brand_title else ""
BrandArg(c) ==
    IF c.brand_title = NoneStr \/ c.brand_title = <<>>
    THEN <<>> ELSE StrLower(c.brand_title)

NoItem == [id |-> 0, brand_title |-> NoneStr, size_title |-> NoneStr, user |-> "absent"]

\* ---------------------------------------------------------- listing model

\* A raw record as Item.__init__ reads it, each entry given by its shape.
\*   photo             absent, JSON null, an object without a timestamp
\*                     ("no_ts"), an object with high_resolution.timestamp a
\*                     number ("ts") or a string ("ts_string")
\*   description       absent, JSON null, a text, a blank string, a number
\*                     other than 0
\*   item_box          absent, JSON null, an object with a description text
\*   created_at_ts     absent, an epoch number, an ISO-8601 string, a string
\*                     that is no date
\*   last_loged_on_ts  absent, an ISO-8601 string, a string that is no date, a
\*                     number other than 0
\*   user              absent, JSON null, an object
PhotoShapes == {"absent", "null", "no_ts", "ts", "ts_string"}
DescriptionShapes == {"absent", "null", "text", "blank", "number"}
ItemBoxShapes == {"absent", "null", "text"}
CreatedShapes == {"absent", "epoch", "iso", "badstring"}
LastLoggedShapes == {"absent", "iso", "badstring", "number"}
UserShapes == {"absent", "null", "object"}

RawRecords ==
    [photo : PhotoShapes, description : DescriptionShapes,
     item_box : ItemBoxShapes, created_at_ts : CreatedShapes,
     last_loged_on_ts : LastLoggedShapes, user : UserShapes]

\* self.photo_url = data.get("photo", {}).get("url", "No photo URL")
photo_url(data) ==
    CASE data.photo = "absent" -> "No photo URL"
      [] data.photo = "null" -> "AttributeError"
      [] OTHER -> "url"

\* Item._extract_description: which candidate is returned.  `"description"
\* in item_box` raises TypeError on None; description.strip() raises
\* AttributeError on a number.
_extract_description(data) ==
    IF data.item_box = "null" THEN "TypeError"
    ELSE IF data.description = "text" THEN "description"
    ELSE IF data.description = "number" THEN "AttributeError"
    ELSE IF data.item_box = "text" THEN "item_box"
    ELSE "No description provided"

\* Item._parse_timestamp: the source the datetime returned comes from.
\* AttributeError is not among the exceptions its outer try catches;
\* fromtimestamp raises TypeError on a string, which the outer try catches,
\* leaving the try block for the fallback.
_parse_timestamp(data) ==
    IF data.photo = "null" THEN "AttributeError"
    ELSE IF data.photo = "ts" THEN "photo"
    ELSE IF data.photo = "ts_string" THEN "now"
    ELSE IF data.created_at_ts \in {"epoch", "iso"} THEN "created_at_ts"
    ELSE IF data.last_loged_on_ts = "iso" THEN "last_loged_on_ts"
    ELSE IF data.last_loged_on_ts = "number" THEN "AttributeError"
    ELSE "now"

\* Item._extract_user_feedback
_extract_user_feedback(data) ==
    CASE data.user = "absent" -> "zeros"
      [] data.user = "null" -> "AttributeError"
      [] data.user = "object" -> "counts"

Errors == {"AttributeError", "TypeError"}

\* Item.__init__: the Item built, or the first exception raised on the way
Item(data) ==
    LET built == [photo_url |-> photo_url(data),
                  description |-> _extract_description(data),
                  created_at_ts |-> _parse_timestamp(data),
                  user_feedback |-> _extract_user_feedback(data)]
        order == <<built.photo_url, built.description, built.created_at_ts,
                   built.user_feedback>>
        failed == {k \in 1..Len(order) : order[k] \in Errors}
    IN  IF failed = {}
        THEN [raised |-> "no"] @@ built
        ELSE [raised |-> order[SetMin(failed)],
              photo_url |-> "", description |-> "", created_at_ts |-> "",
              user_feedback |-> ""]

\* ------------------------------------------------------- enrichment client

\* range(3) in fetch_user_feedback and fetch_item_description
MaxAttempts == 3

\* What one requests.get can end in:
\*   ok          2xx, body a JSON object holding the data asked for
\*   ok_nokey    2xx, body a JSON object without the keys read by the caller
\*   ok_nonobj   2xx, body a non-empty JSON array (valid JSON, not an object)
\*   bad_body    2xx, body not JSON: response.json() raises
\*               requests.exceptions.JSONDecodeError, a RequestException
\*   rate_limit  HTTP 429 (raise_for_status raises HTTPError)
\*   http_error  any other 4xx/5xx (raise_for_status raises HTTPError)
\*   transport   timeout or connection failure (a RequestException)
Outcomes == {"ok", "ok_nokey", "ok_nonobj", "bad_body", "rate_limit",
             "http_error", "transport"}

Req == [ev |-> "request", n |-> 0]
Sleep(n) == [ev |-> "sleep", n |-> n]

IdleCall == [fn |-> "none", attempt |-> 0, log |-> <<>>, status |-> "idle",
             result |-> "None"]
NewCall(fn) == [fn |-> fn, attempt |-> 0, log |-> <<>>, status |-> "running",
                result |-> "None"]

Returned(c, r) == [c EXCEPT !.status = "returned", !.result = r]

\* the end of one pass through `for attempt in range(3)`: the next attempt, or
\* the fall-through to `return None` once the range is exhausted
NextAttempt(c) ==
    IF c.attempt + 1 < MaxAttempts
    THEN [c EXCEPT !.attempt = @ + 1]
    ELSE Returned([c EXCEPT !.attempt = @ + 1], "None")

\* a backoff that does not double: time.sleep(1)
Backoff_Fixed(c) == NextAttempt([c EXCEPT !.log = Append(@, Sleep(1))])

\* time.sleep(2 ** attempt), then the next pass of the loop
Backoff(c) == NextAttempt([c EXCEPT !.log = Append(@, Sleep(2 ^ c.attempt))])

\* one pass of the retry loop of fetch_user_feedback, the request ending in o
fetch_user_feedback(c, o) ==
    LET r == [c EXCEPT !.log = Append(@, Req)]
    IN  CASE o \in {"ok", "ok_nokey"} -> Returned(r, "data")
          [] o = "ok_nonobj" -> Returned(r, "nonobj")
          [] o = "rate_limit" -> Backoff(r)
          [] o = "http_error" -> Returned(r, "None")
          [] o \in {"transport", "bad_body"} -> Backoff(r)

\* a retry loop that sleeps and retries on every HTTP error status
fetch_item_description_RetryAll(c, o) ==
    LET r == [c EXCEPT !.log = Append(@, Req)]
    IN  CASE o = "ok" -> Returned(r, "data")
          [] o = "ok_nokey" -> Returned(r, "None")
          [] o = "ok_nonobj" -> [r EXCEPT !.status = "raised"]
          [] o \in {"rate_limit", "http_error"} -> Backoff(r)
          [] o \in {"transport", "bad_body"} -> Backoff(r)

\* one pass of the retry loop of fetch_item_description, the request ending in o
fetch_item_description(c, o) ==
    LET r == [c EXCEPT !.log = Append(@, Req)]
    IN  CASE o = "ok" -> Returned(r, "data")
          [] o = "ok_nokey" -> Returned(r, "None")
          [] o = "ok_nonobj" -> [r EXCEPT !.status = "raised"]
          [] o = "rate_limit" -> Backoff(r)
          [] o = "http_error" -> Returned(r, "None")
          [] o \in {"transport", "bad_body"} -> Backoff(r)

FetchStep(c, o) ==
    IF c.fn = "feedback" THEN fetch_user_feedback(c, o)
    ELSE fetch_item_description(c, o)

\* ---------------------------------------------------------------- renderer

\* round() of the fraction n / d, n >= 0 and d > 0: Python rounds to the
\* nearest integer and a tie to the even one
RoundHalfEven(n, d) ==
    LET q == n \div d
        r == n % d
    IN  IF 2 * r < d THEN q
        ELSE IF 2 * r > d THEN q + 1
        ELSE IF q % 2 = 0 THEN q ELSE q + 1

\* reputation_percentage of send_item_to_discord, in tenths of a percent:
\* round(float(positive_feedback) * 100 / total_feedback, 1), else 0.
\* The quotient is a tie between two tenths only when it ends in .25 or .75,
\* which a float holds exactly, so rounding the fraction is rounding the float.
reputation_percentage(positive, neutral, negative) ==
    LET total_feedback == positive + neutral + negative
    IN  IF total_feedback > 0
        THEN RoundHalfEven(positive * 1000, total_feedback)
        ELSE 0

\* a rating that drops the fraction instead of rounding
get_star_rating_Floor(tenths) == tenths \div 200

\* MyBot.get_star_rating: star_count = round(reputation_percentage / 20),
\* the percentage given in tenths
get_star_rating(tenths) == RoundHalfEven(tenths, 200)

\* the text f"{number} {unit} ago", kept as its number and its unit word
Ago(number, unit) == [number |-> number, unit |-> unit]

\* MyBot.time_ago, given seconds_diff = int((now - created_at).total_seconds())
time_ago(seconds_diff) ==
    IF seconds_diff < 60 THEN Ago(seconds_diff, "seconds")
    ELSE IF seconds_diff < 3600
         THEN LET minutes == seconds_diff \div 60
              IN  Ago(minutes, IF minutes # 1 THEN "minutes" ELSE "minute")
    ELSE IF seconds_diff < 86400
         THEN LET hours == seconds_diff \div 3600
              IN  Ago(hours, IF hours # 1 THEN "hours" ELSE "hour")
    ELSE LET days == seconds_diff \div 86400
         IN  Ago(days, IF days # 1 THEN "days" ELSE "day")

\* ------------------------------------------------------------ live update

\* What message.edit can end in, given what has become of the message:
\*   ok, NotFound (discord.errors.NotFound), an HTTPException with code
\*   50001, 50034 or another code, or an exception that is no HTTPException.
EditOutcomes(cond) ==
    CASE cond = "live" -> {"ok", "http_other", "exception"}
      [] cond = "deleted" -> {"NotFound"}
      [] cond = "noperm" -> {"http_50001"}
      [] cond = "tooold" -> {"http_50034"}

\* a handler without the branch for code 50034
AfterEdit_NoTooOld(outcome) ==
    CASE outcome = "ok" -> "Active"
      [] outcome = "NotFound" -> "Stopped"
      [] outcome = "http_50001" -> "Stopped"
      [] outcome = "exception" -> "Crashed"
      [] OTHER -> "Active"

\* the try/except around message.edit: the state of the task after the edit
AfterEdit(outcome) ==
    CASE outcome = "ok" -> "Active"
      [] outcome = "NotFound" -> "Stopped"
      [] outcome = "http_50001" -> "Stopped"
      [] outcome = "http_50034" -> "Stopped"
      [] outcome = "http_other" -> "Active"
      [] outcome = "exception" -> "Crashed"

\* The task created by create_task(update_time_difference(message, ...)).
\* edited is the parity of the number of message.edit calls it has made: the
\* text written to field 0 depends on the wall clock only, so an edit shows in
\* the state as a flip of edited.
NewTask(msg) == [msg |-> msg, state |-> "Active", edited |-> FALSE]

\* ------------------------------------------------------------------ state

\* probe holds one call of a function of the program taken on its own: the
\* function, its argument, whether it has been applied, and what it returned.
\* No such call is under way while the bot runs.
NoProbe == [fn |-> "none", arg |-> <<>>, done |-> FALSE, ret |-> <<>>]

brand_aliases == _create_alias_mapping(brand_channels)

\* the size filter and the route of every listing of the catalogue
Filtered ==
    [c \in {d \in Catalogue : ~BrandRaises(d)} |->
        [child |-> _is_child_size(c.size_title),
         route |-> _find_matching_brand(brand_aliases, BrandArg(c))]]

Init ==
    /\ pc = "idle"
    /\ items = [isNone |-> FALSE, remaining |-> 0]
    /\ item = NoItem
    /\ logged = "start"
    /\ sent_items = <<>>
    /\ call = IdleCall
    /\ user_feedback = "None"
    /\ sinkLog = <<>>
    /\ tasks = <<>>
    /\ msgCond = <<>>
    /\ outcomes = <<>>
    /\ probe = NoProbe

\* ------------------------------------------------------- polling task

\* fetch_vinted_items: None when the search raises, the listings otherwise
SearchResults == {[isNone |-> TRUE, remaining |-> 0]}
                 \cup {[isNone |-> FALSE, remaining |-> n] : n \in 0..MaxBatch}

\* without the None check: `for item in None` raises TypeError
AfterFetch_NoCheck(res) == IF res.isNone THEN "dead" ELSE "loop"

\* `if items is None: return`: where check_vinted stands after the fetch
AfterFetch(res) == IF res.isNone THEN "idle" ELSE "loop"

\* check_vinted up to the for loop
Tick ==
    /\ pc = "idle"
    /\ \E res \in SearchResults :
         /\ items' = res
         /\ pc' = AfterFetch(res)
         /\ logged' = IF res.isNone THEN "fetch_failed" ELSE "checking"
    /\ UNCHANGED <<item, sent_items, call, user_feedback, sinkLog, tasks,
                   msgCond, outcomes, probe>>

\* the for loop is exhausted: check_vinted returns (its local item is gone)
\* and the task sleeps 10 s
TickEnd ==
    /\ pc = "loop"
    /\ items.remaining = 0
    /\ pc' = "idle"
    /\ item' = NoItem
    /\ logged' = "tick_done"
    /\ UNCHANGED <<items, sent_items, call, user_feedback, sinkLog,
                   tasks, msgCond, outcomes, probe>>

\* item.id not in self.sent_items, negated
AlreadySent(sent, id) == \E i \in 1..Len(sent) : sent[i] = id

\* item.raw_data.get('user', {}).get('id')
UserId(c) ==
    CASE c.user = "absent" -> "None"
      [] c.user = "null" -> "AttributeError"
      [] c.user = "no_id" -> "None"
      [] c.user = "has_id" -> "id"

\* a loop that does not look at the owner id
Verdict_NoOwnerCheck(c, sent, channel_found) ==
    IF UserId(c) = "AttributeError" \/ BrandRaises(c) THEN "raise"
    ELSE IF Filtered[c].child THEN "skip_child"
    ELSE IF Filtered[c].route = NoRoute THEN "skip_brand"
    ELSE IF AlreadySent(sent, c.id) THEN "skip_sent"
    ELSE IF ~channel_found THEN "skip_channel"
    ELSE "enrich"

\* the decision check_vinted takes on one listing before any enrichment;
\* channel_found is whether get_channel returns a channel
Verdict(c, sent, channel_found) ==
    IF UserId(c) = "AttributeError" \/ BrandRaises(c) THEN "raise"
    ELSE IF Filtered[c].child THEN "skip_child"
    ELSE IF Filtered[c].route = NoRoute THEN "skip_brand"
    ELSE IF UserId(c) = "None" THEN "skip_user"
    ELSE IF AlreadySent(sent, c.id) THEN "skip_sent"
    ELSE IF ~channel_found THEN "skip_channel"
    ELSE "enrich"

\* a loop that gives up the rest of the batch
Skip_Abort ==
    /\ items' = [items EXCEPT !.remaining = 0]
    /\ pc' = "loop"

\* the for loop goes on to its next listing
Skip ==
    /\ items' = [items EXCEPT !.remaining = @ - 1]
    /\ pc' = "loop"

\* a loop that marks as sent the listing whose channel is not found
NextCandidate_MarkUnrouted ==
    /\ pc = "loop"
    /\ items.remaining > 0
    /\ \E c \in Catalogue, channel_found \in BOOLEAN :
         LET v == Verdict(c, sent_items, channel_found)
         IN  /\ logged' = v
             /\ item' = c
             /\ sent_items' = IF v = "skip_channel"
                              THEN Append(sent_items, c.id) ELSE sent_items
             /\ CASE v = "raise" ->
                       /\ pc' = "dead"
                       /\ UNCHANGED <<items, call>>
                  [] v = "enrich" ->
                       /\ pc' = "fb"
                       /\ call' = NewCall("feedback")
                       /\ UNCHANGED items
                  [] OTHER -> Skip /\ UNCHANGED call
    /\ UNCHANGED <<user_feedback, sinkLog, tasks, msgCond, outcomes, probe>>

\* one iteration of the for loop, up to the call of fetch_user_feedback
NextCandidate ==
    /\ pc = "loop"
    /\ items.remaining > 0
    /\ \E c \in Catalogue, channel_found \in BOOLEAN :
         LET v == Verdict(c, sent_items, channel_found)
         IN  /\ logged' = v
             /\ item' = c
             /\ CASE v = "raise" ->
                       /\ pc' = "dead"
                       /\ UNCHANGED <<items, call>>
                  [] v = "enrich" ->
                       /\ pc' = "fb"
                       /\ call' = NewCall("feedback")
                       /\ UNCHANGED items
                  [] OTHER -> Skip /\ UNCHANGED call
    /\ UNCHANGED <<sent_items, user_feedback, sinkLog, tasks, msgCond, outcomes, probe>>

\* one attempt of fetch_user_feedback; on its return send_item_to_discord is
\* entered and calls fetch_item_description
FeedbackAttempt ==
    /\ pc = "fb"
    /\ \E o \in Outcomes :
         LET c2 == fetch_user_feedback(call, o)
         IN  IF c2.status = "running"
             THEN /\ call' = c2
                  /\ UNCHANGED <<pc, user_feedback>>
             ELSE /\ user_feedback' = c2.result
                  /\ call' = NewCall("description")
                  /\ pc' = "desc"
    /\ UNCHANGED <<items, item, logged, sent_items, sinkLog, tasks, msgCond,
                   outcomes, probe>>

\* a tick that forgets what it sent
MarkSent_Forget(sent, id) == sent

\* a list that keeps the latest id only
MarkSent_Evict(sent, id) == <<id>>

\* self.sent_items.append(item.id) after send_item_to_discord has returned
MarkSent(sent, id) == Append(sent, id)

\* the body of send_item_to_discord from the description to channel.send:
\* "raise" when an exception reaches its except clause, else "send"
Render(c2, feedback) ==
    IF c2.status = "raised" \/ feedback = "nonobj" THEN "raise" ELSE "send"

\* one attempt of fetch_item_description; on its return the message is built
\* and channel.send is awaited, or an exception is caught and logged
DescriptionAttempt ==
    /\ pc = "desc"
    /\ \E o \in Outcomes :
         LET c2 == fetch_item_description(call, o)
         IN  IF c2.status = "running"
             THEN /\ call' = c2
                  /\ UNCHANGED <<pc, items, item, logged, sent_items,
                                 user_feedback, sinkLog>>
             ELSE IF Render(c2, user_feedback) = "raise"
             THEN /\ sent_items' = MarkSent(sent_items, item.id)
                  /\ logged' = "send_error"
                  /\ call' = IdleCall
                  /\ user_feedback' = "None"
                  /\ Skip
                  /\ UNCHANGED <<item, sinkLog>>
             ELSE /\ sinkLog' = Append(sinkLog,
                        [id |-> item.id, result |-> "pending"])
                  /\ call' = IdleCall
                  /\ pc' = "send"
                  /\ UNCHANGED <<items, item, logged, sent_items, user_feedback>>
    /\ UNCHANGED <<tasks, msgCond, outcomes, probe>>

\* channel.send completes: the refresh task is created on success, the
\* exception is caught and logged on failure; then check_vinted goes on
SendDone ==
    /\ pc = "send"
    /\ \E ok \in BOOLEAN :
         /\ sinkLog' = [sinkLog EXCEPT ![Len(sinkLog)].result =
                            IF ok THEN "sent" ELSE "failed"]
         /\ logged' = IF ok THEN "sent" ELSE "send_error"
         /\ IF ok
            THEN /\ tasks' = Append(tasks, NewTask(Len(sinkLog)))
                 /\ msgCond' = Append(msgCond, "live")
            ELSE UNCHANGED <<tasks, msgCond>>
    /\ sent_items' = MarkSent(sent_items, item.id)
    /\ user_feedback' = "None"
    /\ Skip
    /\ UNCHANGED <<item, call, outcomes, probe>>

\* ------------------------------------------------------- refresh tasks

\* an event loop that could switch tasks anywhere
AtSuspension_Always == TRUE

\* enrichment calls that yield to the event loop while they wait
AtSuspension_InCalls == pc \in {"idle", "send", "dead", "fb", "desc"}

\* the event loop runs another task only while check_vinted is suspended
AtSuspension == pc \in {"idle", "send", "dead"}

\* whether the while loop of update_time_difference is still running
Running(task) == task.state = "Active"

\* one pass of the while loop of update_time_difference
update_time_difference(t) ==
    /\ t \in 1..Len(tasks)
    /\ Running(tasks[t])
    /\ AtSuspension
    /\ \E outcome \in EditOutcomes(msgCond[t]) :
         tasks' = [tasks EXCEPT ![t] =
                     [@ EXCEPT !.state = AfterEdit(outcome),
                               !.edited = ~@]]
    /\ UNCHANGED <<pc, items, item, logged, sent_items, call, user_feedback,
                   sinkLog, msgCond, outcomes, probe>>

\* the message is deleted, the permission to edit it is withdrawn, or it
\* grows too old to edit.  Nothing reads msgCond while check_vinted runs
\* without suspending, so the change is placed at a suspension point.
MessageGone(t) ==
    /\ t \in 1..Len(tasks)
    /\ Running(tasks[t])
    /\ AtSuspension
    /\ msgCond[t] = "live"
    /\ \E c \in {"deleted", "noperm", "tooold"} :
         msgCond' = [msgCond EXCEPT ![t] = c]
    /\ UNCHANGED <<pc, items, item, logged, sent_items, call, user_feedback,
                   sinkLog, tasks, outcomes, probe>>

\* ---------------------------------------------------------- specification

Next ==
    \/ Tick
    \/ TickEnd
    \/ NextCandidate
    \/ FeedbackAttempt
    \/ DescriptionAttempt
    \/ SendDone
    \/ \E t \in 1..MaxId : update_time_difference(t)
    \/ \E t \in 1..MaxId : MessageGone(t)

Spec == Init /\ [][Next]_vars

\* check_vinted runs without suspending from the loop head to channel.send, so
\* those steps are always taken; the event loop hands control to every ready
\* task each time check_vinted suspends (it sleeps 10 s between ticks).
Blocking == TickEnd \/ NextCandidate \/ FeedbackAttempt \/ DescriptionAttempt

FairSpec ==
    /\ Spec
    /\ WF_vars(Blocking)
    /\ \A t \in 1..MaxId : SF_vars(update_time_difference(t))

\* ------------------------------------------- the enrichment calls alone

\* one call of fetch_user_feedback or of fetch_item_description, every attempt
\* ending in any of Outcomes; outcomes records how each attempt ended
InitFetch ==
    /\ pc = "call"
    /\ items = [isNone |-> FALSE, remaining |-> 0]
    /\ item = NoItem
    /\ logged = "start"
    /\ sent_items = <<>>
    /\ call \in {NewCall("feedback"), NewCall("description")}
    /\ user_feedback = "None"
    /\ sinkLog = <<>>
    /\ tasks = <<>>
    /\ msgCond = <<>>
    /\ outcomes = <<>>
    /\ probe = NoProbe

FetchAttempt ==
    /\ pc = "call"
    /\ call.status = "running"
    /\ \E o \in Outcomes :
         /\ call' = FetchStep(call, o)
         /\ outcomes' = Append(outcomes, o)
    /\ UNCHANGED <<pc, items, item, logged, sent_items, user_feedback, sinkLog,
                   tasks, msgCond, probe>>

NextFetch == FetchAttempt

SpecFetch == InitFetch /\ [][NextFetch]_vars

\* ------------------------------------------- the pure functions alone

\* the variables of the running bot, which a function taken on its own leaves
\* as they are
bot == <<pc, items, item, logged, sent_items, call, user_feedback, sinkLog,
         tasks, msgCond, outcomes>>

\* a call of function fn on argument arg, not yet made
Probe(fn, arg) == [fn |-> fn, arg |-> arg, done |-> FALSE, ret |-> <<>>]

\* the call has been made and has returned r
Done(r) == [probe EXCEPT !.done = TRUE, !.ret = r]

\* brand_channels.json files: the one above, the same brands in the other
\* order, and one that lists an empty alias
Configs ==
    { brand_channels,
      << brand_channels[2], brand_channels[1] >>,
      << brand_channels[1],
         [brand |-> <<"M","i","s","c">>, channel_id |-> 3, aliases |-> << <<>> >>] >> }

\* brand titles as listings carry them
BrandTitles ==
    { <<"N","i","k","e">>,
      <<" "," ","N","I","K","E"," ">>,
      <<"N","i"," ","k","e">>,
      <<"N",".","i","k","e">>,
      <<"Z","a","r","a">>,
      <<"P","a","l","a","c","e">>,
      <<"P","a","l","a","c","e"," ","S","k","a","t","e","b","o","a","r","d","s">>,
      <<"N","i","k","e"," ","x"," ","P","a","l","a","c","e"," ","S","k","a","t","e","b","o","a","r","d","s">>,
      <<"P","a","l","a","c","e"," ","S","k","a","t","e","b","o","a","r","d","s"," ","x"," ","N","i","k","e">>,
      <<"N","i","k","e"," ","x"," ","Z","a","r","a">>,
      <<"Z","a","r","a"," ","x"," ","B","o","x">>,
      <<>>,
      <<" ">>,
      <<" "," "," ">> }

ResolveInputs ==
    {Probe("_find_matching_brand", [config |-> c, brand_title |-> b]) :
        c \in Configs, b \in BrandTitles \cup {NoneStr}}

\* size titles as listings carry them, None included
SizeTitles ==
    { NoneStr,
      <<>>,
      <<"M">>,
      <<"U","K"," ","1","0">>,
      <<"X","L">>,
      <<"K","i","d","s"," ","L">>,
      <<"1","2"," ","M","O","N","T","H","S">>,
      <<"3","-","4"," ","Y","e","a","r","s">>,
      <<"B","a","b","y">>,
      <<"c","h","i","l","d"," ","8">>,
      <<"k","i","d">>,
      <<"y","e","a","r"," ","9">>,
      <<"B","a","b","y","g","r","o","w">>,
      <<"S"," ","/"," ","C","h","i","l","d">> }

SizeInputs == {Probe("_is_child_size", z) : z \in SizeTitles}

\* self._is_child_size(size_title)
Call_is_child_size ==
    /\ pc = "pure"
    /\ probe.fn = "_is_child_size"
    /\ ~probe.done
    /\ probe' = Done(_is_child_size(probe.arg))
    /\ UNCHANGED bot

\* largest number of feedbacks of a seller
MaxFeedback == 23

\* the feedback counts of a seller
FeedbackCounts ==
    {[positive |-> p, neutral |-> u, negative |-> n] :
        p \in 0..MaxFeedback, u \in 0..MaxFeedback, n \in 0..MaxFeedback}

StarInputs ==
    {Probe("get_star_rating", f) :
        f \in {g \in FeedbackCounts :
                  g.positive + g.neutral + g.negative <= MaxFeedback}}

\* the star count send_item_to_discord renders for the feedback counts
Call_get_star_rating ==
    /\ pc = "pure"
    /\ probe.fn = "get_star_rating"
    /\ ~probe.done
    /\ probe' = Done(get_star_rating(
                         reputation_percentage(probe.arg.positive,
                                               probe.arg.neutral,
                                               probe.arg.negative)))
    /\ UNCHANGED bot

\* largest age of a listing, in days
MaxDays == 2

\* the first counts of a unit and the last one before the next unit
Marks(n) == {0, 1, 2, n - 1}

\* ages of a listing in whole seconds, around every change of unit
Elapsed ==
    {dd * 86400 + h * 3600 + m * 60 + sec :
        dd \in 0..MaxDays, h \in Marks(24), m \in Marks(60), sec \in Marks(60)}

AgoInputs == {Probe("time_ago", d) : d \in Elapsed}

\* self.time_ago(created_at), now - created_at being probe.arg seconds
Call_time_ago ==
    /\ pc = "pure"
    /\ probe.fn = "time_ago"
    /\ ~probe.done
    /\ probe' = Done(time_ago(probe.arg))
    /\ UNCHANGED bot

ItemInputs == {Probe("Item", d) : d \in RawRecords}

\* Item(data)
Call_Item ==
    /\ pc = "pure"
    /\ probe.fn = "Item"
    /\ ~probe.done
    /\ probe' = Done(Item(probe.arg))
    /\ UNCHANGED bot

\* the records that differ in their timestamp sources only
TimestampInputs ==
    {Probe("_parse_timestamp", d) :
        d \in {r \in RawRecords : /\ r.description = "absent"
                                  /\ r.item_box = "absent"
                                  /\ r.user = "absent"}}

\* self._parse_timestamp(data)
Call_parse_timestamp ==
    /\ pc = "pure"
    /\ probe.fn = "_parse_timestamp"
    /\ ~probe.done
    /\ probe' = Done(_parse_timestamp(probe.arg))
    /\ UNCHANGED bot

\* self._find_matching_brand(brand_title) on a bot built from arg.config
Call_find_matching_brand ==
    /\ pc = "pure"
    /\ probe.fn = "_find_matching_brand"
    /\ ~probe.done
    /\ probe' = Done(_find_matching_brand(
                         _create_alias_mapping(probe.arg.config),
                         probe.arg.brand_title))
    /\ UNCHANGED bot

InitPure ==
    /\ pc = "pure"
    /\ items = [isNone |-> FALSE, remaining |-> 0]
    /\ item = NoItem
    /\ logged = "start"
    /\ sent_items = <<>>
    /\ call = IdleCall
    /\ user_feedback = "None"
    /\ sinkLog = <<>>
    /\ tasks = <<>>
    /\ msgCond = <<>>
    /\ outcomes = <<>>
    /\ \/ probe \in ResolveInputs
       \/ probe \in SizeInputs
       \/ probe \in StarInputs
       \/ probe \in AgoInputs
       \/ probe \in ItemInputs
       \/ probe \in TimestampInputs

NextPure ==
    \/ Call_find_matching_brand
    \/ Call_is_child_size
    \/ Call_get_star_rating
    \/ Call_time_ago
    \/ Call_Item
    \/ Call_parse_timestamp

SpecPure == InitPure /\ [][NextPure]_vars

\* ------------------------------------------------------------- properties

Last(q) == q[Len(q)]

\* the sends of listing id that channel.send has been called for
SendsOf(id) == {k \in 1..Len(sinkLog) : sinkLog[k].id = id}

\* some send of listing id succeeded
Delivered(id) == \E k \in SendsOf(id) : sinkLog[k].result = "sent"

\* C1: across all ticks and batches channel.send is called at most once per
\* listing id, and no listing whose id is in sent_items is being enriched or
\* sent: a later occurrence of a sent id is skipped.
C1_AtMostOneSendPerId ==
    /\ \A id \in Ids : Cardinality(SendsOf(id)) <= 1
    /\ pc \in {"fb", "desc", "send"} => ~AlreadySent(sent_items, item.id)

\* a listing whose id was delivered has come up again and has been skipped
C1_Witness ==
    /\ logged = "skip_sent"
    /\ Delivered(item.id)

\* C2: when channel.send fails, the id of the listing is not added to
\* sent_items.
C2_FailedSendNotMarked ==
    [][(pc = "send" /\ pc' # "send" /\ Last(sinkLog').result = "failed")
          => sent_items' = sent_items]_vars

\* C3: a listing whose send failed is attempted again whenever it comes up:
\* a listing is skipped as already sent only once one of its sends succeeded.
C3_RetriedUntilDelivered ==
    logged = "skip_sent" => Delivered(item.id)

\* C4: whatever the enrichment calls and the send of one listing end in, the
\* for loop goes on with the next listing of the batch: the count of listings
\* left drops by exactly one, the tick ends only when none is left, and the
\* next listing can be taken as long as one is left.
C4_FailureKeepsBatch ==
    /\ [](pc = "loop" /\ items.remaining > 0 => ENABLED NextCandidate)
    /\ [][/\ (pc \in {"fb", "desc", "send"} /\ pc' \notin {"fb", "desc", "send"})
              => (pc' = "loop" /\ items'.remaining = items.remaining - 1)
          /\ (pc = "loop" /\ pc' = "idle") => items.remaining = 0]_vars

\* the send of a listing failed and the loop stands before the next listing
C4_Witness ==
    /\ pc = "loop"
    /\ items.remaining > 0
    /\ logged = "send_error"
    /\ sinkLog # <<>>
    /\ Last(sinkLog).id = item.id
    /\ Last(sinkLog).result = "failed"

\* C5: no failure ends the polling loop: check_vinted is never left by an
\* exception.
C5_LoopNeverDies == pc # "dead"

\* C6: a failed search ends the tick at once: no enrichment call is started,
\* nothing is sent, no refresh task is created, sent_items is unchanged, and
\* the task is back waiting for its next tick.
C6_FailedFetchDoesNothing ==
    /\ [](logged = "fetch_failed" => pc = "idle" /\ ENABLED Tick)
    /\ [][(logged # "fetch_failed" /\ logged' = "fetch_failed")
             => /\ pc' = "idle"
                /\ UNCHANGED <<sent_items, sinkLog, tasks, call, user_feedback>>]_vars

\* a search has failed after a listing was marked sent
C6_Witness ==
    /\ logged = "fetch_failed"
    /\ items.isNone
    /\ sent_items # <<>>

RequestsIn(log) == Cardinality({k \in 1..Len(log) : log[k].ev = "request"})
SleepsIn(log) == SelectSeq(log, LAMBDA e : e.ev = "sleep")

AllTransport ==
    /\ call.status # "running"
    /\ outcomes # <<>>
    /\ \A k \in 1..Len(outcomes) : outcomes[k] = "transport"

\* C7 as claimed: when every attempt ends in a transport error there are 3
\* requests, the result is None, the sleeps are 1, 2, 4 s, and each sleep lies
\* between two requests.
C7_SleepsBetweenAttempts ==
    AllTransport =>
        /\ RequestsIn(call.log) = 3
        /\ call.status = "returned" /\ call.result = "None"
        /\ SleepsIn(call.log) = <<Sleep(1), Sleep(2), Sleep(4)>>
        /\ \A k \in 1..Len(call.log) :
             call.log[k].ev = "sleep" =>
                /\ k > 1 /\ call.log[k - 1].ev = "request"
                /\ k < Len(call.log) /\ call.log[k + 1].ev = "request"

\* C7 amended: when every attempt ends in a transport error there are 3
\* requests, each followed by a sleep, of 1, 2 and 4 s in this order; the
\* 4 s sleep follows the last request, and then None is returned.
C7_SleepAfterEachAttempt ==
    AllTransport =>
        /\ call.status = "returned" /\ call.result = "None"
        /\ call.log = <<Req, Sleep(1), Req, Sleep(2), Req, Sleep(4)>>

C7_Witness ==
    /\ call.status = "returned"
    /\ outcomes = <<"transport", "transport", "transport">>

\* the outcomes caught by `except requests.exceptions.RequestException`
RequestErrors == {"transport", "bad_body"}

\* the requests and sleeps that outcomes os call for, the k-th sleep lasting
\* 2^(k-1) s and only rate limits and request errors being slept on
RECURSIVE ExpectedLog(_, _)
ExpectedLog(os, k) ==
    IF k > Len(os) THEN <<>>
    ELSE <<Req>>
         \o (IF os[k] \in {"rate_limit"} \cup RequestErrors
             THEN <<Sleep(2 ^ (k - 1))>> ELSE <<>>)
         \o ExpectedLog(os, k + 1)

C9_NeverRaises ==
    /\ RequestsIn(call.log) <= MaxAttempts
    /\ call.status # "raised"
    /\ \A k \in 1..Len(outcomes) :
         outcomes[k] \in {"ok", "ok_nokey", "ok_nonobj"} =>
            k = Len(outcomes) /\ call.status = "returned"

TerminalCond == {"deleted", "noperm", "tooold"}

\* what has become of the message of task t, and the state of task t
CondOf(t) == IF t <= Len(tasks) THEN msgCond[t] ELSE "none"
StateOf(t) == IF t <= Len(tasks) THEN tasks[t].state ELSE "none"

\* C10: an edit that reports NotFound, code 50001 (no permission) or code
\* 50034 (too old) stops the task; a stopped task makes no further edit; and
\* once the message is deleted, closed to edits or too old, the task stops.
C10_TerminalEditStops ==
    /\ [][\A t \in 1..MaxId : t <= Len(tasks) =>
            /\ (tasks'[t] # tasks[t] /\ msgCond[t] \in TerminalCond)
                  => tasks'[t].state = "Stopped"
            /\ tasks[t].state = "Stopped" => tasks'[t] = tasks[t]]_vars
    /\ \A t \in 1..MaxId :
          (CondOf(t) \in TerminalCond) ~> (StateOf(t) = "Stopped")

\* a task has refreshed its message, then was stopped by code 50034
C10_Witness ==
    \E t \in 1..Len(tasks) :
       /\ tasks[t].state = "Stopped"
       /\ msgCond[t] = "tooold"
       /\ ~tasks[t].edited

\* C11: an edit that fails in any way other than NotFound, code 50001 and
\* code 50034 leaves the task Active: every edit attempted on a message that
\* is still there and editable ends with the task in its while loop.
C11_OtherFailureKeepsActive ==
    [][\A t \in 1..MaxId :
          (t <= Len(tasks) /\ tasks'[t] # tasks[t] /\ msgCond[t] = "live")
             => tasks'[t].state = "Active"]_vars

\* the alias index and the trimmed lowercase title of a call of
\* _find_matching_brand
ProbeAliases == _create_alias_mapping(probe.arg.config)
ProbeBrand == StrStrip(StrLower(probe.arg.brand_title))

Resolved ==
    /\ probe.fn = "_find_matching_brand"
    /\ probe.done
    /\ probe.arg.brand_title # NoneStr

\* the aliases equal to a trimmed part of the " x " split of title b
SplitAliases(aliases, b) ==
    IF StrContains(b, <<" ","x"," ">>)
    THEN {i \in 1..Len(aliases) :
            \E p \in 1..Len(StrSplit(b, <<" ","x"," ">>)) :
               StrStrip(StrSplit(b, <<" ","x"," ">>)[p]) = aliases[i].alias}
    ELSE {}

\* the aliases of the fixed list that occur in title b
FixedAliases(aliases, b) ==
    {i \in 1..Len(aliases) :
        aliases[i].alias \in specific_brands /\ StrContains(b, aliases[i].alias)}

RoutesOf(aliases, I) == {aliases[i].route : i \in I}

\* C12: the route returned is that of the first step that succeeds, the steps
\* taken in the order exact lookup, variant lookup, " x " split, fixed-list
\* substring: when a trimmed part of the split equals an alias, the route is
\* that of such an alias, whatever fixed-list alias occurs in the title.
C12_StepsInOrder ==
    (Resolved /\ ProbeBrand # <<>>) =>
        LET a == ProbeAliases
            b == ProbeBrand
            v == variations(b)
            vhit == {k \in 1..Len(v) : HasAlias(a, v[k])}
        IN  IF HasAlias(a, b) THEN probe.ret = Lookup(a, b)
            ELSE IF vhit # {} THEN probe.ret = Lookup(a, v[SetMin(vhit)])
            ELSE IF SplitAliases(a, b) # {}
                 THEN probe.ret \in RoutesOf(a, SplitAliases(a, b))
            ELSE IF FixedAliases(a, b) # {}
                 THEN probe.ret \in RoutesOf(a, FixedAliases(a, b))
            ELSE probe.ret = NoRoute

\* the size titles of SizeTitles that name a child size
ChildSizes ==
    { <<"K","i","d","s"," ","L">>,
      <<"1","2"," ","M","O","N","T","H","S">>,
      <<"3","-","4"," ","Y","e","a","r","s">>,
      <<"B","a","b","y">>,
      <<"c","h","i","l","d"," ","8">>,
      <<"B","a","b","y","g","r","o","w">>,
      <<"S"," ","/"," ","C","h","i","l","d">> }

\* C13: a size is rejected exactly when, lowercased, it contains one of
\* months, years, child, kids, baby; None and "" pass, and so do sizes such
\* as M and UK 10 that contain none of them.
C13_ChildSizeFilter ==
    (probe.fn = "_is_child_size" /\ probe.done) =>
        /\ probe.ret = (probe.arg \in ChildSizes)
        /\ probe.arg \in {NoneStr, <<>>, <<"M">>, <<"U","K"," ","1","0">>} => probe.ret = FALSE
        /\ probe.arg \notin {NoneStr, <<>>} =>
              probe.ret = \E ind \in {<<"m","o","n","t","h","s">>,
                                 <<"y","e","a","r","s">>,
                                 <<"c","h","i","l","d">>,
                                 <<"k","i","d","s">>,
                                 <<"b","a","b","y">>} : StrContains(StrLower(probe.arg), ind)

\* a size written in capitals has been rejected
C13_Witness ==
    /\ probe.fn = "_is_child_size"
    /\ probe.done
    /\ probe.arg = <<"1","2"," ","M","O","N","T","H","S">>
    /\ probe.ret = TRUE

\* round() of n / d with a tie rounded up
RoundHalfUp(n, d) == (2 * n + d) \div (2 * d)

Starred == probe.fn = "get_star_rating" /\ probe.done

ProbeTotal == probe.arg.positive + probe.arg.neutral + probe.arg.negative

\* the part of C14 that holds of every rounding: between 0 and 5 stars, none
\* without feedback, 5 at 100% positive, 3 at 60% positive
StarsInRange ==
    /\ probe.ret \in 0..5
    /\ ProbeTotal = 0 => probe.ret = 0
    /\ (ProbeTotal > 0 /\ probe.arg.positive = ProbeTotal) => probe.ret = 5
    /\ (ProbeTotal > 0 /\ 5 * probe.arg.positive = 3 * ProbeTotal)
          => probe.ret = 3

\* C14 as claimed: the star count is round(P / 20) for P the percentage of
\* positive feedbacks rounded to a whole number (0 without feedback), with
\* round read either as Python's round or as rounding a tie up.
C14_StarsOfWholePercent ==
    Starred =>
        /\ StarsInRange
        /\ ProbeTotal > 0 =>
              probe.ret \in
                 { RoundHalfEven(RoundHalfEven(100 * probe.arg.positive,
                                               ProbeTotal), 20),
                   RoundHalfUp(RoundHalfUp(100 * probe.arg.positive,
                                           ProbeTotal), 20) }

\* the tenth of a percent nearest to positive / total, the even one at a tie
NearestTenth ==
    CHOOSE T \in 0..1000 :
        LET e == 1000 * probe.arg.positive - T * ProbeTotal
        IN  \/ 2 * e < ProbeTotal /\ 2 * e > 0 - ProbeTotal
            \/ 2 * e = ProbeTotal /\ T % 2 = 0
            \/ 2 * e = 0 - ProbeTotal /\ T % 2 = 0

\* C14 amended: the percentage is rounded to one decimal, not to a whole
\* number, and P / 20 is rounded to the nearest integer with a tie going to
\* the even one: 0 stars up to 10.0%, 1 below 30.0%, 2 from 30.0% to 50.0%,
\* 3 below 70.0%, 4 from 70.0% to 90.0%, 5 above.
C14_StarsOfTenthPercent ==
    Starred =>
        /\ StarsInRange
        /\ ProbeTotal > 0 =>
              LET T == NearestTenth
              IN  probe.ret = CASE T <= 100 -> 0
                                [] T > 100 /\ T < 300 -> 1
                                [] T >= 300 /\ T <= 500 -> 2
                                [] T > 500 /\ T < 700 -> 3
                                [] T >= 700 /\ T <= 900 -> 4
                                [] T > 900 -> 5

\* 16 positive feedbacks of 23 are 69.6%: 3 stars, where 70% would give 4
C14_Witness ==
    /\ Starred
    /\ probe.arg.positive = 16
    /\ ProbeTotal = 23
    /\ probe.ret = 3

\* n units, the unit word singular exactly when n is 1
Counted(n, one, many) == [number |-> n, unit |-> IF n = 1 THEN one ELSE many]

\* C15: the text is in seconds below 60 s, in whole minutes below 3600 s, in
\* whole hours below 86400 s and in whole days from there on, and in every
\* bucket the unit word is singular when the number shown is 1 and plural
\* otherwise.
C15_BucketsAndPlurals ==
    (probe.fn = "time_ago" /\ probe.done) =>
        LET d == probe.arg
        IN  probe.ret =
              IF d < 60 THEN Counted(d, "second", "seconds")
              ELSE IF d < 3600 THEN Counted(d \div 60, "minute", "minutes")
              ELSE IF d < 86400 THEN Counted(d \div 3600, "hour", "hours")
              ELSE Counted(d \div 86400, "day", "days")

\* C16: constructing an Item never raises, whatever the record: a missing,
\* null or oddly typed entry leaves its field at the default.
C16_ConstructionNeverFails ==
    (probe.fn = "Item" /\ probe.done) =>
        /\ probe.ret.raised = "no"
        /\ probe.arg.photo \in {"absent", "null"}
              => probe.ret.photo_url = "No photo URL"
        /\ probe.arg.user \in {"absent", "null"}
              => probe.ret.user_feedback = "zeros"
        /\ (probe.arg.description \notin {"text"} /\ probe.arg.item_box # "text")
              => probe.ret.description = "No description provided"

\* C17: the timestamp comes from the first of photo timestamp, created_at_ts
\* and last_loged_on_ts that is present and can be parsed, a source that
\* cannot be parsed being passed over; it is the current time only when none
\* of the three is.  Stated of the calls that return.
C17_NextSourceTried ==
    (probe.fn = "_parse_timestamp" /\ probe.done /\ probe.ret \notin Errors) =>
        probe.ret =
           IF probe.arg.photo = "ts" THEN "photo"
           ELSE IF probe.arg.created_at_ts \in {"epoch", "iso"}
                THEN "created_at_ts"
           ELSE IF probe.arg.last_loged_on_ts = "iso" THEN "last_loged_on_ts"
           ELSE "now"

\* check_vinted is enriching or sending the listing held in item
Enriching == pc \in {"fb", "desc", "send"}

\* the four checks on listing c, in the order of the tick
IsChild(c) == Filtered[c].child
HasRoute(c) == Filtered[c].route # NoRoute
HasOwner(c) == c.user = "has_id"

\* C18: a listing is checked for child size, brand route, owner id and
\* membership of sent_items in this order, the first check it fails being
\* the one it is skipped for; an enrichment call or a send is under way only
\* for a listing that passed all four, and none is started by any other step.
C18_ChecksBeforeEnrichment ==
    /\ [](Enriching =>
            /\ ~IsChild(item) /\ HasRoute(item) /\ HasOwner(item)
            /\ ~AlreadySent(sent_items, item.id))
    /\ [][/\ (call' # call \/ sinkLog' # sinkLog) => (Enriching \/ Enriching')
          /\ (pc = "loop" /\ pc' \in {"loop", "fb"}) =>
                LET c == item'
                IN  logged' =
                      IF IsChild(c) THEN "skip_child"
                      ELSE IF ~HasRoute(c) THEN "skip_brand"
                      ELSE IF ~HasOwner(c) THEN "skip_user"
                      ELSE IF AlreadySent(sent_items, c.id) THEN "skip_sent"
                      ELSE IF pc' = "fb" THEN "enrich"
                      ELSE "skip_channel"]_vars

\* a listing without owner id whose id is in sent_items has been skipped for
\* the missing owner id, with no enrichment call started
C18_Witness ==
    /\ pc = "loop"
    /\ logged = "skip_user"
    /\ AlreadySent(sent_items, item.id)
    /\ call = IdleCall

\* C19 as claimed: from the test of sent_items for a listing to the append of
\* its id no other task runs: no refresh task takes a step while the listing
\* is being enriched or sent.
C19_NoTaskBetweenCheckAndAppend ==
    [][(Enriching /\ pc' = pc) => tasks' = tasks]_vars

\* C19 amended: from the test to the append check_vinted suspends once, at
\* the await of channel.send.  Refresh tasks run there and nowhere else on
\* the way; no tick starts, and sent_items and the listing stay as they are
\* until the append.
C19_OnlySendSuspends ==
    /\ [](pc \in {"fb", "desc"} =>
            \A t \in 1..MaxId : ~ENABLED update_time_difference(t))
    /\ [](Enriching => ~ENABLED Tick)
    /\ [][(Enriching /\ Enriching')
             => (sent_items' = sent_items /\ item' = item)]_vars
    /\ [][(Enriching /\ pc' = pc /\ tasks' # tasks) => pc = "send"]_vars

\* the second send is awaited while the refresh task of the first, which has
\* edited its message, is ready to run
C19_Witness ==
    /\ pc = "send"
    /\ Len(sent_items) = 1
    /\ Len(tasks) = 1
    /\ tasks[1].edited
    /\ ENABLED update_time_difference(1)

\* C20: a brand title that is empty or holds white space only resolves to no
\* route, whatever the aliases.
C20_BlankNeverMatches ==
    (Resolved /\ ProbeBrand = <<>>) => probe.ret = NoRoute

\* C21: sent_items only grows: every step leaves the ids it held in place and
\* at most appends to them, whatever the step is, so no id it held is lost.
C21_SentItemsAppendOnly ==
    [][/\ Len(sent_items') >= Len(sent_items)
       /\ SubSeq(sent_items', 1, Len(sent_items)) = sent_items]_vars

\* two ids are held, a send has failed, a refresh task has ended and the
\* latest search has failed
C21_Witness ==
    /\ Len(sent_items) = 2
    /\ logged = "fetch_failed"
    /\ \E k \in 1..Len(sinkLog) : sinkLog[k].result = "failed"
    /\ \E t \in 1..Len(tasks) : tasks[t].state = "Stopped"

\* C22: a listing that passed the four checks but whose channel is not found
\* is skipped: no enrichment call is started, nothing is sent, its id is not
\* added to sent_items and the loop goes on; so the id is still not in
\* sent_items, and the same listing coming up again can be enriched.
C22_NoChannelSkips ==
    /\ [][(pc = "loop" /\ logged' = "skip_channel" /\ pc' = "loop") =>
            /\ call' = IdleCall
            /\ UNCHANGED <<sinkLog, sent_items, tasks>>
            /\ items'.remaining = items.remaining - 1
            /\ ~IsChild(item') /\ HasRoute(item') /\ HasOwner(item')]_vars
    /\ [](logged = "skip_channel" =>
            /\ ~AlreadySent(sent_items, item.id)
            /\ items.remaining > 0 =>
                  ENABLED (NextCandidate /\ item' = item /\ logged' = "enrich"))

\* a listing has been skipped for its missing channel after another was sent
C22_Witness ==
    /\ pc = "loop"
    /\ logged = "skip_channel"
    /\ sent_items # <<>>
    /\ ~AlreadySent(sent_items, item.id)
    /\ items.remaining > 0

\* some backoff sleep has been made in the enrichment call under way
Sleeping == \E k \in 1..Len(call.log) : call.log[k].ev = "sleep"

\* C23: from the start of fetch_user_feedback or fetch_item_description to
\* its return, backoff sleeps included, no refresh task edits and no tick
\* starts: the only steps are the attempts of the call.
C23_EnrichmentNeverYields ==
    /\ [](pc \in {"fb", "desc"} =>
            /\ call.status = "running"
            /\ ~ENABLED Tick
            /\ \A t \in 1..MaxId : ~ENABLED update_time_difference(t))
    /\ [][(pc \in {"fb", "desc"}) => (tasks' = tasks /\ call' # call)]_vars

\* fetch_item_description has slept on a failed attempt while the refresh
\* task of an earlier message is waiting to edit
C23_Witness ==
    /\ pc = "desc"
    /\ Sleeping
    /\ \E t \in 1..Len(tasks) : Running(tasks[t]) /\ msgCond[t] = "live"

====
